---- MODULE Spec2Model ----
(***************************************************************************)
(* YAHOO.util.Selectable (src/src/selectable/selectable.js): explorer-like *)
(* selection for the children of a container element, with a shared       *)
(* drag-to-select overlay.                                                 *)
(*                                                                         *)
(* The JavaScript heap the handlers touch is held in the variables below.  *)
(* Every method of the source is an operator from a heap record to the     *)
(* heap record it leaves behind, so that a handler calling other methods   *)
(* is the composition of their operators; an action applies one handler    *)
(* (or, for an event on the document, every instance's handler in          *)
(* registration order) and stores the result.                              *)
(***************************************************************************)
EXTENDS Integers, Sequences, FiniteSets, TLC

(***************************************************************************)
(* Bounds of the model.                                                    *)
(***************************************************************************)
\* longest `selected` array explored
MaxLen == 4

(***************************************************************************)
(* The DOM: two containers, each with a Selectable instance, their child   *)
(* elements (the items), one nested node inside every item, body and       *)
(* document.                                                               *)
(***************************************************************************)
\* lastSelected: null; also the null returned by getTarget and Dom.get
Null == 0

Ctl == {1, 2}

\* the elements that are children of a container on some page
Items == 1..4

\* DOM nodes are numbered: the items, then the node nested in item i, then
\* the two containers, document.body and document
Inner(i) == 4 + i

Container(c) == 8 + c

Body == Container(2) + 1

Document == Body + 1

\* the pages: container 1 with three children and container 2 with one, or
\* two children and one
PageA == [c \in Ctl |-> IF c = 1 THEN <<1, 2, 3>> ELSE <<4>>]

PageB == [c \in Ctl |-> IF c = 1 THEN <<1, 2>> ELSE <<4>>]

RECURSIVE SeqToSet(_)
SeqToSet(s) == IF s = <<>> THEN {} ELSE {Head(s)} \cup SeqToSet(Tail(s))

VARIABLES
    instances,     \* Selectable.instances, in the order the instances registered
    children,      \* Dom.getChildren(container) per container, in sibling order
    protoSelected, \* the one array Selectable.prototype.selected
    hasOwn,        \* whether the instance has an own `selected` property
    ownSelected,   \* the instance's own `selected` array, when it has one
    lastSelected,  \* per instance
    marked,        \* the elements carrying the class selectClass
    mouseDown,     \* per instance
    overlayShown,  \* per instance: "undefined", "true" or "false"
    initXy,        \* per instance
    cache,         \* Overlay.prototype.cache, in insertion order
    overlay,       \* the overlay element: position, size, class ui-hidden
    refreshes,     \* history: refreshCache calls since the instance's mousedown
    contained,     \* history: what overlay.getContains() returned last
    ev             \* history: the handler or method that ran last

vars == <<instances, children, protoSelected, hasOwn, ownSelected, lastSelected, marked,
          mouseDown, overlayShown, initXy, cache, overlay, refreshes, contained,
          ev>>

\* the heap as one record
Heap ==
    [instances |-> instances, children |-> children, protoSelected |-> protoSelected, hasOwn |-> hasOwn,
     ownSelected |-> ownSelected, lastSelected |-> lastSelected,
     marked |-> marked, mouseDown |-> mouseDown, overlayShown |-> overlayShown,
     initXy |-> initXy, cache |-> cache, overlay |-> overlay,
     refreshes |-> refreshes, contained |-> contained]

Store(h) ==
    /\ instances' = h.instances
    /\ children' = h.children
    /\ protoSelected' = h.protoSelected
    /\ hasOwn' = h.hasOwn
    /\ ownSelected' = h.ownSelected
    /\ lastSelected' = h.lastSelected
    /\ marked' = h.marked
    /\ mouseDown' = h.mouseDown
    /\ overlayShown' = h.overlayShown
    /\ initXy' = h.initXy
    /\ cache' = h.cache
    /\ overlay' = h.overlay
    /\ refreshes' = h.refreshes
    /\ contained' = h.contained

(***************************************************************************)
(* Selection methods.                                                      *)
(***************************************************************************)
\* this.selected: the own property when there is one, else the prototype's
selected(h, c) == IF h.hasOwn[c] THEN h.ownSelected[c] ELSE h.protoSelected

\* this.selected.push(el) mutates whichever array this.selected resolves to
push(h, c, el) ==
    IF h.hasOwn[c]
    THEN [h EXCEPT !.ownSelected[c] = Append(@, el)]
    ELSE [h EXCEPT !.protoSelected = Append(@, el)]

\* Dom.addClass / Dom.removeClass over a collection; null entries are skipped
addClass(h, els) == [h EXCEPT !.marked = @ \cup (els \ {Null})]

removeClass(h, els) == [h EXCEPT !.marked = @ \ els]

isSelected(h, c, el) == el \in h.marked

\* a variant of select without the isSelected test
selectUnguarded(h, c, el) ==
    LET h1 == push(h, c, el)
        h2 == addClass(h1, {el})
    IN  [h2 EXCEPT !.lastSelected[c] = el]

select(h, c, el) ==
    IF isSelected(h, c, el)
    THEN h
    ELSE LET h1 == push(h, c, el)
             h2 == addClass(h1, {el})
         IN  [h2 EXCEPT !.lastSelected[c] = el]

\* while (item = els.pop()) { if (item != el) this.selected.push(item); }
\* the loop ends at the first falsy item, which pop has already removed
RECURSIVE popLoop(_, _, _)
popLoop(els, out, el) ==
    IF els = <<>>
    THEN [els |-> els, out |-> out]
    ELSE LET item == els[Len(els)]
             rest == SubSeq(els, 1, Len(els) - 1)
         IN  IF item = Null
             THEN [els |-> rest, out |-> out]
             ELSE popLoop(rest, IF item # el THEN Append(out, item) ELSE out, el)

\* a variant of deselect that leaves lastSelected alone
deselectKeepsAnchor(h, c, el) ==
    IF ~isSelected(h, c, el)
    THEN h
    ELSE LET r == popLoop(selected(h, c), <<>>, el)
             h1 == IF h.hasOwn[c] THEN h ELSE [h EXCEPT !.protoSelected = r.els]
             h2 == [h1 EXCEPT !.hasOwn[c] = TRUE, !.ownSelected[c] = r.out]
         IN  removeClass(h2, {el})

deselect(h, c, el) ==
    IF ~isSelected(h, c, el)
    THEN h
    ELSE LET r == popLoop(selected(h, c), <<>>, el)
             h1 == IF h.hasOwn[c] THEN h ELSE [h EXCEPT !.protoSelected = r.els]
             h2 == [h1 EXCEPT !.hasOwn[c] = TRUE, !.ownSelected[c] = r.out,
                              !.lastSelected[c] = el]
         IN  removeClass(h2, {el})

getChildren(h, c) == h.children[c]

\* the host takes the child el out of container c: getChildren no longer
\* returns it, and the element keeps its class
removeChild(h, c, el) ==
    [h EXCEPT !.children[c] = SelectSeq(@, LAMBDA x : x # el)]

selectAll(h, c) ==
    LET h1 == [h EXCEPT !.hasOwn[c] = TRUE, !.ownSelected[c] = getChildren(h, c)]
    IN  addClass(h1, SeqToSet(selected(h1, c)))

\* the assignment of line 477 goes to the property `slected`, which nothing
\* reads: this.selected keeps its elements
deselectAll(h, c) == removeClass(h, SeqToSet(selected(h, c)))

\* the heap once the instances `made` have been constructed, in that order,
\* on the page `kids`
InitHeap(made, kids) ==
    [instances |-> made,
     children |-> kids,
     protoSelected |-> <<>>,
     hasOwn |-> [c \in Ctl |-> FALSE],
     ownSelected |-> [c \in Ctl |-> <<>>],
     lastSelected |-> [c \in Ctl |-> Null],
     marked |-> {},
     mouseDown |-> [c \in Ctl |-> FALSE],
     overlayShown |-> [c \in Ctl |-> "undefined"],
     initXy |-> [c \in Ctl |-> <<>>],
     cache |-> <<>>,
     overlay |-> [xy |-> <<0, 0>>, width |-> 0, height |-> 0, hidden |-> FALSE],
     refreshes |-> [c \in Ctl |-> 0],
     contained |-> <<>>]

\* what ran last: the method or handler, the instance (0: every instance, for
\* an event on the document) and the event's keys
Event(op, c, ctrl, shift) == [op |-> op, c |-> c, ctrl |-> ctrl, shift |-> shift]

NoEvent == Event("init", 0, FALSE, FALSE)

InitWith(made, kids) ==
    /\ instances = made
    /\ children = InitHeap(made, kids).children
    /\ protoSelected = InitHeap(made, kids).protoSelected
    /\ hasOwn = InitHeap(made, kids).hasOwn
    /\ ownSelected = InitHeap(made, kids).ownSelected
    /\ lastSelected = InitHeap(made, kids).lastSelected
    /\ marked = InitHeap(made, kids).marked
    /\ mouseDown = InitHeap(made, kids).mouseDown
    /\ overlayShown = InitHeap(made, kids).overlayShown
    /\ initXy = InitHeap(made, kids).initXy
    /\ cache = InitHeap(made, kids).cache
    /\ overlay = InitHeap(made, kids).overlay
    /\ refreshes = InitHeap(made, kids).refreshes
    /\ contained = InitHeap(made, kids).contained
    /\ ev = NoEvent

\* one Selectable on the page
Init == InitWith(<<1>>, PageA)

\* a Selectable on each of the two containers
InitTwo == InitWith(<<1, 2>>, PageB)

(***************************************************************************)
(* Ranges and event targets.                                               *)
(***************************************************************************)
\* An argument of getElements: a child index, or an element
Num(n) == [isNumber |-> TRUE, v |-> n]

El(e) == [isNumber |-> FALSE, v |-> e]

\* the local function getIndex of getElements: first i with children[i] == el,
\* counted from 0, or -1
getIndex(kids, el) ==
    IF \E i \in 1..Len(kids) : kids[i] = el
    THEN (CHOOSE i \in 1..Len(kids) :
              kids[i] = el /\ \A j \in 1..(i - 1) : kids[j] # el) - 1
    ELSE -1

\* Array.prototype.slice(from, to) for 0-based from, to (negative counts from
\* the end, both clamped to the array)
slice(arr, from, to) ==
    LET n  == Len(arr)
        rel(k) == IF k < 0 THEN (IF n + k < 0 THEN 0 ELSE n + k)
                  ELSE (IF k > n THEN n ELSE k)
        lo == rel(from)
        hi == rel(to)
    IN  IF lo >= hi THEN <<>> ELSE SubSeq(arr, lo + 1, hi)

\* a variant of getElements that goes on with the index -1
getElementsUnchecked(h, c, start, end) ==
    LET kids == getChildren(h, c)
        s0 == IF start.isNumber THEN start.v ELSE getIndex(kids, start.v)
        e0 == IF end.isNumber THEN end.v ELSE getIndex(kids, end.v)
        lo == IF s0 > e0 THEN e0 ELSE s0
        hi == IF s0 > e0 THEN s0 ELSE e0
    IN  slice(kids, lo, hi + 1)

getElements(h, c, start, end) ==
    LET kids == getChildren(h, c)
        s0 == IF start.isNumber THEN start.v ELSE getIndex(kids, start.v)
        e0 == IF end.isNumber THEN end.v ELSE getIndex(kids, end.v)
    IN  IF ~start.isNumber /\ s0 = -1 THEN <<>>
        ELSE IF ~end.isNumber /\ e0 = -1 THEN <<>>
        ELSE LET lo == IF s0 > e0 THEN e0 ELSE s0
                 hi == IF s0 > e0 THEN s0 ELSE e0
             IN  slice(kids, lo, hi + 1)

\* Dom.batch(elements, this.select, this, true): select each in turn
RECURSIVE batchSelect(_, _, _)
batchSelect(h, c, els) ==
    IF els = <<>> THEN h ELSE batchSelect(select(h, c, Head(els)), c, Tail(els))

selectRange(h, c, start, finish) ==
    batchSelect(h, c, getElements(h, c, start, finish))

\* node.parentNode; Null for the document and for a detached element
parentNode(h, n) ==
    IF n \in Items
    THEN IF \E c \in Ctl : n \in SeqToSet(h.children[c])
         THEN Container(CHOOSE c \in Ctl : n \in SeqToSet(h.children[c]))
         ELSE Null
    ELSE IF \E i \in Items : n = Inner(i) THEN CHOOSE i \in Items : n = Inner(i)
    ELSE IF \E c \in Ctl : n = Container(c) THEN Body
    ELSE IF n = Body THEN Document
    ELSE Null

\* the while loop of getTarget: climb while the parent is not the container
RECURSIVE climb(_, _, _)
climb(h, element, target) ==
    IF target # Null /\ parentNode(h, target) # Null
                    /\ parentNode(h, target) # element
    THEN climb(h, element, parentNode(h, target))
    ELSE target

\* evt is modelled by the node Event.getTarget(evt) returns
getTarget(h, c, node) ==
    IF node = Null \/ parentNode(h, node) = Null
    THEN Null
    ELSE LET element == Container(c)
             target == climb(h, element, node)
         IN  IF target = Null \/ parentNode(h, target) # element
             THEN Null
             ELSE target

\* a variant of handleClickEvent that clears the selection whatever the keys
handleClickEventClearsAlways(h, c, node, ctrlKey, shiftKey) ==
    LET target == getTarget(h, c, node)
    IN  IF target = Null THEN h
        ELSE LET h1 == deselectAll(h, c)
             IN  IF shiftKey = TRUE /\ h1.lastSelected[c] # Null
                 THEN selectRange(h1, c, El(h1.lastSelected[c]), El(target))
                 ELSE IF isSelected(h1, c, target)
                      THEN deselect(h1, c, target)
                      ELSE select(h1, c, target)

\* a variant of handleClickEvent that clears the selection before it looks
\* for the target
handleClickEventClearsFirst(h, c, node, ctrlKey, shiftKey) ==
    LET target == getTarget(h, c, node)
        h1 == IF ctrlKey = FALSE THEN deselectAll(h, c) ELSE h
    IN  IF target = Null THEN h1
        ELSE IF shiftKey = TRUE /\ h1.lastSelected[c] # Null
             THEN selectRange(h1, c, El(h1.lastSelected[c]), El(target))
             ELSE IF isSelected(h1, c, target)
                  THEN deselect(h1, c, target)
                  ELSE select(h1, c, target)

handleClickEvent(h, c, node, ctrlKey, shiftKey) ==
    LET target == getTarget(h, c, node)
    IN  IF target = Null THEN h
        ELSE LET h1 == IF ctrlKey = FALSE THEN deselectAll(h, c) ELSE h
             IN  IF shiftKey = TRUE /\ h1.lastSelected[c] # Null
                 THEN selectRange(h1, c, El(h1.lastSelected[c]), El(target))
                 ELSE IF isSelected(h1, c, target)
                      THEN deselect(h1, c, target)
                      ELSE select(h1, c, target)

(***************************************************************************)
(* The overlay and the drag handlers.                                      *)
(***************************************************************************)
\* YAHOO.util.Region, as used by inRegion
Region(t, r, b, l) == [top |-> t, right |-> r, bottom |-> b, left |-> l]

\* Region.prototype.contains
contains(this, region) ==
    /\ region.left >= this.left
    /\ region.right <= this.right
    /\ region.top >= this.top
    /\ region.bottom <= this.bottom

Max(a, b) == IF a > b THEN a ELSE b

Min(a, b) == IF a < b THEN a ELSE b

Abs(a) == IF a < 0 THEN -a ELSE a

\* Region.prototype.intersect(region) != null
intersects(this, region) ==
    LET t == Max(this.top, region.top)
        r == Min(this.right, region.right)
        b == Min(this.bottom, region.bottom)
        l == Max(this.left, region.left)
    IN  b >= t /\ r >= l

\* a variant of inRegion that drops the intersection test
inRegionContainedOnly(test, selectedRegion) ==
    IF contains(selectedRegion, test) THEN TRUE ELSE FALSE

inRegion(test, selectedRegion) ==
    IF contains(selectedRegion, test) THEN TRUE
    ELSE IF intersects(selectedRegion, test) THEN TRUE
    ELSE FALSE

\* the page layout: items 1 to 3 lie 10 wide and high along the diagonal, 20
\* apart; item 4 lies to their right, on the top edge
getRegion(el) ==
    LET x == IF el < 4 THEN 20 * (el - 1) ELSE 70
        y == IF el < 4 THEN 20 * (el - 1) ELSE 0
    IN  Region(y, x + 10, y + 10, x)

\* Dom.getRegion(this.element) of the overlay, from moveTo/setWidth/setHeight
overlayRegion(h) ==
    Region(h.overlay.xy[2], h.overlay.xy[1] + h.overlay.width,
           h.overlay.xy[2] + h.overlay.height, h.overlay.xy[1])

\* this.cache[id] = region: a new key goes last, a known key keeps its place
_cacheRegion(ca, el) ==
    IF \E i \in 1..Len(ca) : ca[i].id = el
    THEN [i \in 1..Len(ca) |->
             IF ca[i].id = el THEN [id |-> el, region |-> getRegion(el)] ELSE ca[i]]
    ELSE Append(ca, [id |-> el, region |-> getRegion(el)])

RECURSIVE cacheAll(_, _)
cacheAll(ca, els) ==
    IF els = <<>> THEN ca ELSE cacheAll(_cacheRegion(ca, Head(els)), Tail(els))

RECURSIVE refreshFrom(_, _, _)
refreshFrom(h, ca, k) ==
    IF k > Len(h.instances) THEN ca
    ELSE refreshFrom(h, cacheAll(ca, getChildren(h, h.instances[k])), k + 1)

refreshCache(h) == [h EXCEPT !.cache = refreshFrom(h, h.cache, 1)]

\* Dom.get(id): the element of the document with that id, or null
DomGet(h, id) ==
    IF \E c \in Ctl : id \in SeqToSet(h.children[c]) THEN id ELSE Null

RECURSIVE containsFrom(_, _, _)
containsFrom(h, region, k) ==
    IF k > Len(h.cache) THEN <<>>
    ELSE LET rest == containsFrom(h, region, k + 1)
         IN  IF inRegion(h.cache[k].region, region)
             THEN <<DomGet(h, h.cache[k].id)>> \o rest
             ELSE rest

getContains(h) == containsFrom(h, overlayRegion(h), 1)

\* Overlay.show; c is the instance whose handler called it, and `refreshes`
\* counts the call
show(h, c) ==
    LET h1 == refreshCache(h)
    IN  [h1 EXCEPT !.overlay.hidden = FALSE, !.refreshes[c] = @ + 1]

hide(h) == [h EXCEPT !.overlay.hidden = TRUE]

\* the count `refreshes` starts again with the gesture
handleMouseDownEvent(h, c, xy) ==
    [h EXCEPT !.mouseDown[c] = TRUE, !.initXy[c] = xy, !.refreshes[c] = 0]

\* a variant of handleMouseMoveEvent that puts the overlay's corner where the
\* button went down
handleMouseMoveEventFromOrigin(h, c, xy) ==
    IF h.mouseDown[c] = FALSE THEN h
    ELSE LET h1 == IF h.overlayShown[c] = "false" THEN show(h, c) ELSE h
             h2 == [h1 EXCEPT !.overlayShown[c] = "true"]
             init == h2.initXy[c]
             width == Abs(xy[1] - init[1])
             height == Abs(xy[2] - init[2])
         IN  [h2 EXCEPT !.overlay.xy = init, !.overlay.height = height,
                        !.overlay.width = width]

\* `this.overlayShown == false` is false while overlayShown is undefined
handleMouseMoveEvent(h, c, xy) ==
    IF h.mouseDown[c] = FALSE THEN h
    ELSE LET h1 == IF h.overlayShown[c] = "false" THEN show(h, c) ELSE h
             h2 == [h1 EXCEPT !.overlayShown[c] = "true"]
             init == h2.initXy[c]
             width == Abs(xy[1] - init[1])
             height == Abs(xy[2] - init[2])
             pos == <<Min(xy[1], init[1]), Min(xy[2], init[2])>>
         IN  [h2 EXCEPT !.overlay.xy = pos, !.overlay.height = height,
                        !.overlay.width = width]

\* `contained` keeps what getContains returned
handleMouseUpEvent(h, c, ctrlKey) ==
    LET h1 == [h EXCEPT !.mouseDown[c] = FALSE]
    IN  IF h1.overlayShown[c] = "true"
        THEN LET elements == getContains(h1)
                 h2 == IF ~ctrlKey THEN deselectAll(h1, c) ELSE h1
                 h3 == batchSelect(h2, c, elements)
                 h4 == hide(h3)
             IN  [h4 EXCEPT !.overlayShown[c] = "false", !.contained = elements]
        ELSE h1

\* an event on the document reaches every instance's listener, in the order
\* initDomEvents added them
RECURSIVE documentMouseMove(_, _, _)
documentMouseMove(h, xy, k) ==
    IF k > Len(h.instances) THEN h
    ELSE documentMouseMove(handleMouseMoveEvent(h, h.instances[k], xy), xy, k + 1)

RECURSIVE documentMouseUp(_, _, _)
documentMouseUp(h, ctrlKey, k) ==
    IF k > Len(h.instances) THEN h
    ELSE documentMouseUp(handleMouseUpEvent(h, h.instances[k], ctrlKey), ctrlKey, k + 1)

(***************************************************************************)
(* Actions.                                                                *)
(***************************************************************************)
\* where the pointer is pressed, moved and released
Points == {<<0, 0>>, <<15, 15>>, <<35, 35>>, <<80, 0>>}

\* the nodes a click on container c can hit: the container itself, its items
\* and the nodes nested in them
ItemsOf(c) == SeqToSet(children[c])

ClickNodes(c) ==
    {Container(c)} \cup ItemsOf(c) \cup {Inner(i) : i \in ItemsOf(c)}

Live == SeqToSet(instances)

Bounded(h) ==
    /\ Len(h.protoSelected) <= MaxLen
    /\ \A c \in Ctl : Len(h.ownSelected[c]) <= MaxLen

Do(h, e) == Bounded(h) /\ Store(h) /\ ev' = e

Select(c, el) ==
    Do(select(Heap, c, el), Event("select", c, FALSE, FALSE))

Deselect(c, el) ==
    Do(deselect(Heap, c, el), Event("deselect", c, FALSE, FALSE))

SelectRange(c, a, b) ==
    Do(selectRange(Heap, c, El(a), El(b)), Event("selectRange", c, FALSE, FALSE))

\* selectRange called with child indices, counted from 0
SelectRangeAt(c, i, j) ==
    Do(selectRange(Heap, c, Num(i), Num(j)), Event("selectRange", c, FALSE, FALSE))

SelectAll(c) ==
    Do(selectAll(Heap, c), Event("selectAll", c, FALSE, FALSE))

DeselectAll(c) ==
    Do(deselectAll(Heap, c), Event("deselectAll", c, FALSE, FALSE))

Click(c, node, ctrlKey, shiftKey) ==
    Do(handleClickEvent(Heap, c, node, ctrlKey, shiftKey),
       Event("click", c, ctrlKey, shiftKey))

\* the button goes down only while it is up everywhere
MouseDown(c, xy) ==
    /\ \A d \in Live : ~mouseDown[d]
    /\ Do(handleMouseDownEvent(Heap, c, xy),
          Event("mousedown", c, FALSE, FALSE))

MouseMove(xy) ==
    Do(documentMouseMove(Heap, xy, 1), Event("mousemove", 0, FALSE, FALSE))

MouseUp(ctrlKey) ==
    Do(documentMouseUp(Heap, ctrlKey, 1), Event("mouseup", 0, ctrlKey, FALSE))

RemoveChild(c, el) ==
    Do(removeChild(Heap, c, el), Event("removeChild", c, FALSE, FALSE))

\* the methods a host calls, save selectAll
Api ==
    \E c \in Live :
        \/ \E el \in ItemsOf(c) : Select(c, el)
        \/ \E el \in ItemsOf(c) : Deselect(c, el)
        \/ \E a, b \in Items : SelectRange(c, a, b)
        \/ \E i, j \in 0..(Len(children[c]) - 1) : SelectRangeAt(c, i, j)
        \/ DeselectAll(c)

Clicks ==
    \E c \in Live, ctrlKey, shiftKey \in BOOLEAN :
        \E node \in ClickNodes(c) : Click(c, node, ctrlKey, shiftKey)

Mouse ==
    \/ \E c \in Live, xy \in Points : MouseDown(c, xy)
    \/ \E xy \in Points : MouseMove(xy)
    \/ \E ctrlKey \in BOOLEAN : MouseUp(ctrlKey)

\* selecting by method calls and by clicks, one Selectable
Next == Api \/ Clicks

Spec == Init /\ [][Next]_vars

\* selecting and deselecting one element or all of them, one Selectable
NextAll ==
    \E c \in Live :
        \/ \E el \in ItemsOf(c) : Select(c, el)
        \/ \E el \in ItemsOf(c) : Deselect(c, el)
        \/ SelectAll(c)
        \/ DeselectAll(c)

SpecAll == Init /\ [][NextAll]_vars

\* dragging the overlay, between selections by method call, one Selectable
NextDrag ==
    \/ Mouse
    \/ \E c \in Live : \E el \in ItemsOf(c) : Select(c, el)

SpecDrag == Init /\ [][NextDrag]_vars

\* two Selectables on one page
NextTwo ==
    \E c \in Live :
        \/ \E el \in ItemsOf(c) : Select(c, el)
        \/ \E el \in ItemsOf(c) : Deselect(c, el)
        \/ DeselectAll(c)

SpecTwo == InitTwo /\ [][NextTwo]_vars

\* two Selectables on one page, selecting by clicks
NextTwoClicks == Clicks

SpecTwoClicks == InitTwo /\ [][NextTwoClicks]_vars

\* selecting by method calls and by clicks while the host removes children,
\* one Selectable
NextRemove ==
    \/ Clicks
    \/ \E c \in Live :
          \/ \E el \in ItemsOf(c) : Select(c, el)
          \/ \E a, b \in Items : SelectRange(c, a, b)
          \/ \E el \in ItemsOf(c) : RemoveChild(c, el)

SpecRemove == Init /\ [][NextRemove]_vars

\* two Selectables on one page, dragging the overlay along the top edge of
\* the page, across item 1 of the first container and item 4 of the second
EdgePoints == {<<0, 0>>, <<80, 0>>}

NextTwoDrag ==
    \/ \E c \in Live, xy \in EdgePoints : MouseDown(c, xy)
    \/ \E xy \in EdgePoints : MouseMove(xy)
    \/ \E ctrlKey \in BOOLEAN : MouseUp(ctrlKey)

SpecTwoDrag == InitTwo /\ [][NextTwoDrag]_vars

\* dragging between three corners of the square from (10,10) to (50,50), one
\* Selectable
LassoPoints == {<<10, 10>>, <<50, 50>>, <<50, 10>>}

NextLasso ==
    \/ \E c \in Live, xy \in LassoPoints : MouseDown(c, xy)
    \/ \E xy \in LassoPoints : MouseMove(xy)
    \/ \E ctrlKey \in BOOLEAN : MouseUp(ctrlKey)

SpecLasso == Init /\ [][NextLasso]_vars

(***************************************************************************)
(* Properties.                                                             *)
(***************************************************************************)
\* the SelectionSet of instance c: the members of its `selected` array
SelectionSet(c) == SeqToSet(selected(Heap, c))

\* the children of container c from a to b in sibling order, both included,
\* whichever comes first
Between(c, a, b) ==
    LET kids == children[c]
        ia == CHOOSE i \in 1..Len(kids) : kids[i] = a
        ib == CHOOSE i \in 1..Len(kids) : kids[i] = b
    IN  {kids[i] : i \in (IF ia < ib THEN ia ELSE ib)..(IF ia < ib THEN ib ELSE ia)}

\* C1: a click with no key held on an item t that is not selected leaves the
\* SelectionSet equal to {t}; on the only selected item t it leaves t
\* deselected and the SelectionSet empty.
C1_PlainClickToggles ==
    [][\A c \in Live : \A node \in ClickNodes(c) :
          LET t == getTarget(Heap, c, node)
          IN  (/\ ev' = Event("click", c, FALSE, FALSE)
               /\ t # Null
               /\ Click(c, node, FALSE, FALSE)) =>
                  /\ (t \notin SelectionSet(c) /\ t \notin marked)
                        => SelectionSet(c)' = {t}
                  /\ (SelectionSet(c) = {t} /\ marked = {t})
                        => (SelectionSet(c)' = {} /\ t \notin marked')]_vars

\* C2: once item a has been selected, a click on another item b with only the
\* range key held leaves the SelectionSet equal to the children from a to b,
\* both included, whichever of the two comes first.
C2_RangeInclusive ==
    [][\A c \in Live : \A node \in ClickNodes(c) :
          LET a == lastSelected[c]
              b == getTarget(Heap, c, node)
          IN  (/\ ev' = Event("click", c, FALSE, TRUE)
               /\ ev.op \in {"select", "click"}
               /\ a \in ItemsOf(c) /\ a \in marked
               /\ b # Null /\ b # a
               /\ Click(c, node, FALSE, TRUE))
              => SelectionSet(c)' = Between(c, a, b)]_vars

\* C3: a click on an item t with only the multi key held flips whether t is
\* marked selected and leaves the mark of every other element as it was;
\* afterwards t is in the `selected` array exactly if it is marked, and, as
\* long as the array holds no null entry, every other element is in the
\* array exactly if it was before.
C3_MultiClickTogglesOne ==
    [][\A c \in Live : \A node \in ClickNodes(c) :
          LET t == getTarget(Heap, c, node)
          IN  (/\ ev' = Event("click", c, TRUE, FALSE)
               /\ t # Null
               /\ Click(c, node, TRUE, FALSE)) =>
                  /\ (t \in marked') # (t \in marked)
                  /\ \A x \in Items \ {t} : (x \in marked') = (x \in marked)
                  /\ (t \in SelectionSet(c)') = (t \in marked')
                  /\ Null \notin SelectionSet(c) =>
                        \A x \in Items \ {t} :
                            (x \in SelectionSet(c)') = (x \in SelectionSet(c))]_vars

\* a multi-key click has just deselected item 1 and left item 3 selected
C3_Witness ==
    /\ ev = Event("click", 1, TRUE, FALSE)
    /\ selected(Heap, 1) = <<3>>
    /\ marked = {3}
    /\ lastSelected[1] = 1

\* C4: when the button is released while instance c is dragging, with C the
\* elements getContains returns, the SelectionSet becomes C if the control key
\* is not held and the former SelectionSet joined with C if it is; the overlay
\* is hidden and the instance is neither pressed nor dragging.
C4_ReleaseSelectsContained ==
    [][\A c \in Live : \A ctrlKey \in BOOLEAN :
          (/\ ev' = Event("mouseup", 0, ctrlKey, FALSE)
           /\ overlayShown[c] = "true"
           /\ MouseUp(ctrlKey)) =>
              /\ ~ctrlKey => SelectionSet(c)' = SeqToSet(contained')
              /\ ctrlKey =>
                    SelectionSet(c)' = SelectionSet(c) \cup SeqToSet(contained')
              /\ overlay'.hidden
              /\ ~mouseDown'[c]
              /\ overlayShown'[c] = "false"]_vars

\* C5: while an instance is dragging, the cache has been refreshed exactly
\* once since the button went down, in the first gesture as in every later one.
C5_CacheRebuiltOncePerDrag ==
    \A c \in Live : overlayShown[c] = "true" => refreshes[c] = 1

\* two rectangles overlap when neither lies wholly to one side of the other
Overlaps(a, b) ==
    ~(a.right < b.left \/ b.right < a.left \/ a.bottom < b.top \/ b.bottom < a.top)

\* C6: getContains returns exactly the cached elements whose region overlaps
\* the overlay's rectangle; with the regions [0,0,10,10] of item 1 and
\* [20,20,10,10] of item 2 in the cache, the rectangle [0,0,15,15] yields
\* item 1 alone and [0,0,35,35] yields items 1 and 2.
C6_LassoContainment ==
    ev.op = "mouseup" =>
        /\ SeqToSet(contained) =
              {cache[k].id : k \in {j \in 1..Len(cache) :
                                      Overlaps(cache[j].region, overlayRegion(Heap))}}
        /\ \A i, j \in 1..Len(contained) : i # j => contained[i] # contained[j]
        /\ (Len(cache) >= 2 /\ overlay.xy = <<0, 0>>
                /\ overlay.width = 15 /\ overlay.height = 15)
              => contained = <<1>>
        /\ (Len(cache) >= 2 /\ overlay.xy = <<0, 0>>
                /\ overlay.width = 35 /\ overlay.height = 35)
              => contained = <<1, 2>>

\* a drag from (0,0) to (35,35) has just ended and caught items 1 and 2
C6_Witness ==
    /\ ev.op = "mouseup"
    /\ overlay.xy = <<0, 0>> /\ overlay.width = 35 /\ overlay.height = 35
    /\ overlay.hidden
    /\ contained = <<1, 2>>
    /\ {1, 2} \subseteq marked

\* C7: right after deselectAll the instance's `selected` array is empty.
C7_DeselectAllEmpties ==
    ev.op = "deselectAll" => selected(Heap, ev.c) = <<>>

\* C8: no element occurs twice in an instance's `selected` array.
C8_NoDuplicates ==
    \A c \in Live :
        \A i, j \in 1..Len(selected(Heap, c)) :
            i # j => selected(Heap, c)[i] # selected(Heap, c)[j]

\* C9: isSelected(x) is true exactly if x is in the instance's `selected`
\* array.
C9_IsSelectedIsMembership ==
    \A c \in Live : \A x \in ItemsOf(c) :
        isSelected(Heap, c, x) <=> x \in SelectionSet(c)

\* C10: right after deselectAll no child of the instance's container is
\* marked selected.
C10_DeselectAllClearsMarks ==
    ev.op = "deselectAll" =>
        \A x \in ItemsOf(ev.c) : ~isSelected(Heap, ev.c, x)

\* what the claims about one instance compare: its `selected` array, the
\* marks and its lastSelected
View(h, c) == <<selected(h, c), h.marked, h.lastSelected[c]>>

\* C11: in every reachable state, for every instance and element x, a second
\* select(x) right after select(x) changes nothing (the `selected` arrays, the
\* marks and lastSelected stay as the first call left them), and so does a
\* second deselect(x) right after deselect(x).
C11_SelectDeselectIdempotent ==
    \A c \in Live : \A x \in Items :
        LET s1 == select(Heap, c, x)
            s2 == select(s1, c, x)
            d1 == deselect(Heap, c, x)
            d2 == deselect(d1, c, x)
        IN  /\ s2 = s1
            /\ View(s2, c) = View(s1, c)
            /\ d2 = d1
            /\ View(d2, c) = View(d1, c)

\* select(2) has just run on a state where a first select(3) and a first
\* deselect(1) both change the selection
C11_Witness ==
    /\ ev.op = "select"
    /\ marked = {1, 2}
    /\ lastSelected[1] = 2
    /\ View(select(Heap, 1, 3), 1) # View(Heap, 1)
    /\ View(deselect(Heap, 1, 1), 1) # View(Heap, 1)
    /\ select(Heap, 1, 2) = Heap

\* C12: in every reachable state, selectRange(a, b) with a or b an element
\* that is not a child of the container (an element of another container, or
\* one the host has removed) changes nothing: the `selected` arrays, the marks
\* and lastSelected stay as they are, and no part of a range is selected.
C12_UnresolvedRangeIsNoOp ==
    \A c \in Live : \A a, b \in Items :
        (a \notin ItemsOf(c) \/ b \notin ItemsOf(c)) =>
            /\ getElements(Heap, c, El(a), El(b)) = <<>>
            /\ selectRange(Heap, c, El(a), El(b)) = Heap

\* item 1 was selected and deselected, item 2 was removed, and a selectRange
\* has just run and marked nothing: one of its ends was not a child
C12_Witness ==
    /\ ev.op = "selectRange"
    /\ children[1] = <<1, 3>>
    /\ lastSelected[1] = 1
    /\ marked = {}
    /\ selectRange(Heap, 1, El(2), El(3)) = Heap
    /\ selectRange(Heap, 1, El(1), El(3)) # Heap

\* C13: in every reachable state, a click on the container whose target is no
\* child of the container and lies in none changes nothing, whatever keys are
\* held: the `selected` arrays, the marks and lastSelected stay as they are,
\* and without the control key the selection is not cleared either.
C13_UnresolvedClickIsNoOp ==
    \A c \in Live : \A node \in ClickNodes(c) : \A ctrlKey, shiftKey \in BOOLEAN :
        getTarget(Heap, c, node) = Null =>
            handleClickEvent(Heap, c, node, ctrlKey, shiftKey) = Heap

\* a click with no key held has just run and two items are still marked: it
\* hit the container, not an item
C13_Witness ==
    /\ ev = Event("click", 1, FALSE, FALSE)
    /\ marked = {1, 2}
    /\ lastSelected[1] = 2
    /\ getTarget(Heap, 1, Container(1)) = Null
    /\ deselectAll(Heap, 1) # Heap

C15_CtrlShiftClickAppends ==
    \A c \in Live : \A node \in ClickNodes(c) :
        LET a == lastSelected[c]
            t == getTarget(Heap, c, node)
            h == handleClickEvent(Heap, c, node, TRUE, TRUE)
        IN  (t # Null /\ a \in ItemsOf(c)) =>
                /\ SeqToSet(selected(h, c)) = SelectionSet(c) \cup Between(c, a, t)
                /\ h.marked = marked \cup Between(c, a, t)
                /\ Len(selected(h, c)) >= Len(selected(Heap, c))
                /\ SubSeq(selected(h, c), 1, Len(selected(Heap, c))) = selected(Heap, c)

\* the rectangle spanned by two points: left, top, width, height
Rect(p, q) ==
    <<IF p[1] < q[1] THEN p[1] ELSE q[1],
      IF p[2] < q[2] THEN p[2] ELSE q[2],
      IF p[1] < q[1] THEN q[1] - p[1] ELSE p[1] - q[1],
      IF p[2] < q[2] THEN q[2] - p[2] ELSE p[2] - q[2]>>

\* where the overlay lies: left, top, width, height
OverlayRect(h) == <<h.overlay.xy[1], h.overlay.xy[2], h.overlay.width, h.overlay.height>>

\* the overlay after the button goes down at p on instance c and moves to q
Drag(c, p, q) ==
    OverlayRect(handleMouseMoveEvent(handleMouseDownEvent(Heap, c, p), c, q))

\* C16: the overlay's rectangle depends on the two ends of the drag only, not
\* on which of them is the origin.  In every reachable state a drag from p to
\* q and a drag from q to p put the overlay on the same rectangle, with
\* left = min x, top = min y, width = |dx| and height = |dy|; (50,50) to
\* (10,10) and (10,10) to (50,50) both give [10,10,40,40]; and while the
\* button is down on an instance, a move of the pointer puts the overlay on
\* the rectangle spanned by that instance's origin and the pointer.
C16_LassoNormalized ==
    \A c \in Live :
        /\ Drag(c, <<50, 50>>, <<10, 10>>) = <<10, 10, 40, 40>>
        /\ Drag(c, <<10, 10>>, <<50, 50>>) = <<10, 10, 40, 40>>
        /\ \A p, q \in LassoPoints :
              LET d == Drag(c, p, q)
              IN  d = Drag(c, q, p) /\ d = Rect(p, q)
        /\ mouseDown[c] =>
              \A q \in LassoPoints :
                  LET d == OverlayRect(handleMouseMoveEvent(Heap, c, q))
                  IN  d = Rect(initXy[c], q) /\ d = Rect(q, initXy[c])
        /\ (ev.op = "mousemove" /\ mouseDown[c]) =>
              \E xy \in LassoPoints : OverlayRect(Heap) = Rect(xy, initXy[c])

\* the button went down at (50,50) and the pointer has just moved to (10,10)
C16_Witness ==
    /\ ev.op = "mousemove"
    /\ mouseDown[1]
    /\ initXy[1] = <<50, 50>>
    /\ OverlayRect(Heap) = <<10, 10, 40, 40>>

\* C17: when the button is released while instance c is dragging, every
\* element getContains returns, and so every element the release selects into
\* c, is a child of c's own container.
C17_ContainedAreOwnItems ==
    [][\A c \in Live :
          (ev'.op = "mouseup" /\ overlayShown[c] = "true") =>
              /\ SeqToSet(contained') \subseteq ItemsOf(c)
              /\ SelectionSet(c)' \subseteq SelectionSet(c) \cup ItemsOf(c)]_vars

\* C18: in every reachable state in which lastSelected is an element that is
\* no longer a child of the container, a click on a child with only the shift
\* key held changes neither the `selected` array nor the marks.
C18_RemovedAnchorClickIsNoOp ==
    \A c \in Live : \A node \in ClickNodes(c) :
        LET a == lastSelected[c]
            t == getTarget(Heap, c, node)
            h == handleClickEvent(Heap, c, node, FALSE, TRUE)
        IN  (t # Null /\ a # Null /\ a \notin ItemsOf(c)) =>
                /\ selected(h, c) = selected(Heap, c)
                /\ h.marked = marked

\* C19: in every reachable state in which lastSelected is a child a of the
\* container, a click on a child t with only the shift key held leaves
\* lastSelected equal to the last of the children from a to t in sibling
\* order, whether t comes before a or after it.
C19_ShiftClickAnchorIsLast ==
    \A c \in Live : \A node \in ClickNodes(c) :
        LET a == lastSelected[c]
            t == getTarget(Heap, c, node)
            h == handleClickEvent(Heap, c, node, FALSE, TRUE)
            kids == children[c]
        IN  (t # Null /\ a \in ItemsOf(c)) =>
                h.lastSelected[c] =
                    kids[Max(getIndex(kids, a), getIndex(kids, t)) + 1]

\* C20: with a Selectable on each of two containers, a call on one instance
\* leaves the other instance's `selected` array as it was, and the marks of
\* the other container's children too.
C20_ControllerIsolation ==
    [][\A d \in Live :
          ev'.c # d =>
              /\ selected(Heap, d)' = selected(Heap, d)
              /\ marked' \cap ItemsOf(d) = marked \cap ItemsOf(d)]_vars

====
